---- MODULE Spec2Model ----
(***************************************************************************)
(* TextPulse bulk SMS: the provider abstraction and dispatch coordinator   *)
(* (services/flexibleSmsService.js) together with the SMS routes that call *)
(* it (routes/sms.js), over the messages / recipients tables.              *)
(*                                                                         *)
(* A dispatch (sendSMS) is an async function: it is modelled as a frame    *)
(* per in-flight call that advances at every awaited database query or     *)
(* carrier call.  Everything between two awaits is one step.               *)
(*                                                                         *)
(* The second part is the account flow (routes/auth.js over                *)
(* services/otpService.js and the users / otp_verifications tables):       *)
(* register, verify-registration, login, request-password-reset and        *)
(* reset-password, each handler again advancing at its awaited queries.    *)
(*                                                                         *)
(* services/smsService.js, the older SMSService whose methods the SMS      *)
(* routes name, is modelled on its own (SpecLegacy).                       *)
(***************************************************************************)
EXTENDS Integers, Sequences, FiniteSets, Bags, TLC

\* ------------------------------------------------------------------ bounds
MaxDest == 2        \* longest destination list a request carries
MaxDbFaults == 1    \* database queries that are rejected in one run

Requests == {1, 2}  \* the HTTP requests / direct calls of one run, possibly concurrent
Users == {7, 8}     \* authenticated user ids (req.user.id)
Senders == {7}      \* the users who send (sendSMS only tests userId for null)
Bodies == {"Hello"}
Phones == {"+254711", "+254722"}              \* canonical destinations
RawPhones == {"+254711", "254711", "+254722"} \* what a request body carries
MessageIds == 1..Cardinality(Requests)        \* ids a resend request may name

NoId == 0           \* JavaScript null for userId / messageId

MaxUsers == 2       \* rows the users table gets in one run
MaxOtps == 2        \* rows the otp_verifications table gets in one run
MaxAttempts == 3    \* wrong codes counted against OTP rows in one run
MaxExpired == 1     \* OTP rows that pass their expires_at in one run
AuthProcs == {1, 2} \* account requests being handled at the same time
\* the people who sign up: each has one e-mail address and one phone
People == {[email |-> "a@x.io", phoneNumber |-> "+254711"],
           [email |-> "b@x.io", phoneNumber |-> "+254722"]}
Emails == {who.email : who \in People}
FirstPassword == "Passw0rd"          \* chosen at registration
NewPassword == "N3wPass"             \* chosen at a password reset
Passwords == {FirstPassword, NewPassword}
Codes == {100000 + n : n \in 1..MaxOtps}   \* what generateOTP draws in one run
Guesses == Codes \cup {999999}              \* what a client types (999999: a code never issued)
Purposes == {"registration", "password_reset"}

\* ------------------------------------------------------------- pure helpers
\* services/flexibleSmsService.js:79-80, 95-96  results.filter(r => r.status === s).length
CountStatus(results, s) ==
  Cardinality({k \in DOMAIN results : results[k].status = s})

\* middleware/validation.js sanitizePhoneNumber (src/setup_enhanced.sh:378-394):
\* a number without '+' that starts with 254 gets the '+' prefixed.
sanitizePhoneNumber(raw) ==
  IF raw = "254711" THEN "+254711" ELSE raw

\* routes/sms.js:36  [...new Set(sanitizedRecipients)] keeps first occurrences
RECURSIVE uniqueRecipients(_)
uniqueRecipients(s) ==
  IF s = <<>> THEN <<>>
  ELSE LET init == uniqueRecipients(SubSeq(s, 1, Len(s) - 1))
           last == s[Len(s)]
       IN IF \E k \in DOMAIN init : init[k] = last THEN init
          ELSE Append(init, last)

SeqsUpTo(S, n) == UNION {[1..k -> S] : k \in 1..n}

\* ---------------------------------------------------- provider selection
\* services/flexibleSmsService.js:10-48.  The constructor of the carrier
\* library is the only thing that can reject credentials: the catch block
\* downgrades to 'mock'.  Absent credentials make the library constructor
\* throw; a well-formed but fake (placeholder) credential is rejected only
\* if the library happens to check its format.
ClientCtorThrows(cred, libRejectsPlaceholder) ==
  \/ cred = "absent"
  \/ cred = "placeholder" /\ libRejectsPlaceholder

initializeProvider(envProvider, cred, libRejectsPlaceholder) ==
  CASE envProvider = "twilio" ->
         IF ClientCtorThrows(cred, libRejectsPlaceholder) THEN "mock" ELSE "twilio"
    [] envProvider = "africastalking" ->
         IF ClientCtorThrows(cred, libRejectsPlaceholder) THEN "mock" ELSE "africastalking"
    [] OTHER -> "mock"

\* process.env.SMS_PROVIDER (line 6: unset reads as 'mock') and the state of
\* the credentials of the named carrier.  libRejectsPlaceholder only matters
\* for placeholder credentials, cred only for a real carrier.
Configs ==
  {c \in [provider : {"twilio", "africastalking", "mock"},
          cred : {"absent", "placeholder", "valid"},
          libRejectsPlaceholder : BOOLEAN] :
     /\ c.libRejectsPlaceholder => c.cred = "placeholder"
     /\ c.provider = "mock" => c.cred = "absent"}

\* configurations whose named carrier has working credentials
WorkingConfigs == {c \in Configs : c.provider = "mock" \/ c.cred = "valid"}

VARIABLES
  config,      \* process.env as read by the constructor
  provider,    \* FlexibleSMSService.provider
  messages,    \* table messages, row id = position
  recipients,  \* table recipients, a bag of rows (the SERIAL id is left out)
  inflight,    \* INSERTs issued without await (bulk path), not yet executed
  call,        \* one frame per request: the route handler and the sendSMS call it makes
  dbFaults,    \* pool.query calls rejected so far
  users,       \* table users, row id = position
  otps,        \* table otp_verifications, row id = position (created_at order)
  auth,        \* one frame per account request being handled
  tokens,      \* the users a JWT was signed for so far
  wrongTries,  \* per (phone, purpose) an OTP was issued for: verifyOTP calls answered
               \* 'Invalid or expired OTP' since the last one was issued (up to the limit)
  verified,    \* the (phone, purpose) pairs for which verifyOTP has returned success
  used         \* the otp_verifications rows for which verifyOTP has returned success

authVars == <<users, otps, auth, tokens, wrongTries, verified, used>>

vars == <<config, provider, messages, recipients, inflight, call, dbFaults, authVars>>

NoSummary == [total |-> 0, sent |-> 0, failed |-> 0, provider |-> "none", messageId |-> NoId]
NoResponse == [status |-> 0, message |-> "none"]

IdleFrame ==
  [pc |-> "idle", kind |-> "none", recipients |-> <<>>, body |-> "none", userId |-> NoId,
   messageId |-> NoId, results |-> <<>>, carrier |-> <<>>, pending |-> "none",
   bulkError |-> "none", dbFailed |-> FALSE, summary |-> NoSummary,
   target |-> NoId, seen |-> [owned |-> FALSE, failed |-> 0], res |-> NoResponse]

\* an account request handler that is not running
AuthIdle ==
  [pc |-> "idle", kind |-> "none", email |-> "none", phoneNumber |-> "none",
   password |-> "none", purpose |-> "none", userId |-> NoId, otpId |-> NoId,
   otp |-> 0,        \* the code verifyOTP was called with, once a row matched it
   sent |-> FALSE]   \* whether the carrier accepted the OTP SMS (sendOTP does not look)

InitWith(cfgs) ==
  /\ config \in cfgs
  /\ provider = initializeProvider(config.provider, config.cred, config.libRejectsPlaceholder)
  /\ messages = <<>>
  /\ recipients = EmptyBag
  /\ inflight = {}
  /\ call = [r \in Requests |-> IdleFrame]
  /\ dbFaults = 0
  /\ users = <<>>
  /\ otps = <<>>
  /\ auth = [p \in AuthProcs |-> AuthIdle]
  /\ tokens = {}
  /\ wrongTries = [k \in Phones \X Purposes |-> 0]
  /\ verified = {}
  /\ used = {}

\* the service as constructed from a configuration whose carrier is usable
Init == InitWith(WorkingConfigs)

\* the service as constructed from any configuration
InitAnyConfig == InitWith(Configs)

\* ------------------------------------------------------------ result shapes
\* A field the object does not have is "none".
Result(phone, status, mid, err, prov) ==
  [phoneNumber |-> phone, status |-> status, messageId |-> mid,
   error |-> err, provider |-> prov]

\* table rows
MessageRow(u, body, n) ==
  [user_id |-> u, message_content |-> body, total_recipients |-> n,
   successful_sends |-> 0, failed_sends |-> 0]

RecipientRow(mid, phone, status, ext, err) ==
  [message_id |-> mid, phone_number |-> phone, delivery_status |-> status,
   external_id |-> ext, error_message |-> err]

InsertRow(table, row) == table (+) SetToBag({row})

\* one pool.query: it resolves (dbOk) or is rejected
Query(dbOk) ==
  IF dbOk THEN dbFaults' = dbFaults
  ELSE dbFaults < MaxDbFaults /\ dbFaults' = dbFaults + 1

\* services/flexibleSmsService.js:88-98  the object sendSMS returns
Summary(f) ==
  [total |-> Len(f.recipients),
   sent |-> CountStatus(f.results, "sent"),
   failed |-> CountStatus(f.results, "failed"),
   provider |-> provider,
   messageId |-> f.messageId]

\* services/flexibleSmsService.js:66-75  switch (this.provider)
AdapterPc == CASE provider = "twilio" -> "twilio"
               [] provider = "africastalking" -> "africastalking"
               [] OTHER -> "mock"

\* routes/sms.js:41-45 res.json({success: true, ...}); a direct caller gets the
\* value itself (services/otpService.js:25)
Returned(f) ==
  [f EXCEPT !.pc = "returned", !.summary = Summary(f),
            !.res = IF f.kind = "send" THEN [status |-> 200, message |-> "SMS sending initiated"]
                    ELSE NoResponse]

\* services/flexibleSmsService.js:76-98  what sendSMS does once the adapter has
\* returned results: with a messageId it awaits the UPDATE, otherwise returns.
AfterAdapter(f) ==
  IF f.messageId # NoId THEN [f EXCEPT !.pc = "update"] ELSE Returned(f)

\* what the carrier said about one destination: the number it names and
\* whether it accepted the message (services/flexibleSmsService.js:117-121
\* create resolved or threw, :177 recipient.status === 'Success', :224 isSuccess)
CarrierReport(number, ok) == [number |-> number, ok |-> ok]

\* the result put in front of the list instead of at its end
PushResult_Front(f, r) ==
  LET g == [f EXCEPT !.results = <<r>> \o @, !.pending = "none"]
  IN IF Len(g.results) = Len(g.recipients) THEN AfterAdapter(g)
     ELSE [g EXCEPT !.pc = AdapterPc]

\* the adapter loops (Twilio, mock) push one result and go round again
PushResult(f, r) ==
  LET g == [f EXCEPT !.results = Append(@, r), !.pending = "none"]
  IN IF Len(g.results) = Len(g.recipients) THEN AfterAdapter(g)
     ELSE [g EXCEPT !.pc = AdapterPc]

\* services/flexibleSmsService.js:100-103  catch: throw new Error('Failed to send SMS');
\* routes/sms.js:47-53 answers 500 with that message.  The locals of the
\* abandoned call are gone: the frame keeps the owner and the message id.
Thrown(f) ==
  [IdleFrame EXCEPT !.pc = "thrown", !.kind = f.kind, !.dbFailed = TRUE,
                    !.userId = f.userId, !.messageId = f.messageId,
                    !.res = IF f.kind = "send"
                            THEN [status |-> 500, message |-> "Failed to send SMS"]
                            ELSE NoResponse]

\* ------------------------------------------------------------------ callers
\* services/flexibleSmsService.js:51-62  sendSMS up to its first await
\* (requests are interchangeable: they are numbered in the order they start)
Begin(r, kind, dests, body, userId) ==
  /\ call[r].pc = "idle"
  /\ \A q \in Requests : q < r => call[q].pc # "idle"
  /\ call' = [call EXCEPT ![r] =
       [IdleFrame EXCEPT !.kind = kind, !.recipients = dests, !.body = body,
                         !.userId = userId,
                         !.pc = IF userId # NoId THEN "insertMessage" ELSE AdapterPc]]

\* routes/sms.js:27-39  POST /send: sanitize, deduplicate, sendSMS(unique, message, userId)
SendRoute(r, u, body, raw) ==
  /\ LET sanitizedRecipients == [k \in DOMAIN raw |-> sanitizePhoneNumber(raw[k])]
     IN Begin(r, "send", uniqueRecipients(sanitizedRecipients), body, u)
  /\ UNCHANGED <<authVars, config, provider, messages, recipients, inflight, dbFaults>>

\* services/otpService.js:25, debug_test.js:141, test_sms.js:16
\* sendSMS([phoneNumber], message) without a userId (dry mode)
SendDry(r, body, phoneNumber) ==
  /\ Begin(r, "dry", <<phoneNumber>>, body, NoId)
  /\ UNCHANGED <<authVars, config, provider, messages, recipients, inflight, dbFaults>>

\* services/flexibleSmsService.js:56-62  INSERT INTO messages ... RETURNING id
InsertMessage(r, dbOk) ==
  LET f == call[r] IN
  /\ f.pc = "insertMessage"
  /\ IF dbOk
       THEN /\ messages' = Append(messages, MessageRow(f.userId, f.body, Len(f.recipients)))
            /\ call' = [call EXCEPT ![r] = [f EXCEPT !.messageId = Len(messages) + 1,
                                                     !.pc = AdapterPc]]
       ELSE /\ messages' = messages
            /\ call' = [call EXCEPT ![r] = Thrown(f)]
  /\ Query(dbOk)
  /\ UNCHANGED <<authVars, config, provider, recipients, inflight>>

\* ------------------------------------------------------------------ Twilio
\* a create that lets the carrier's rejection escape: sendSMS rethrows it
TwilioCreate_Raises(r, carrierOk) ==
  LET f == call[r]
      phoneNumber == f.recipients[Len(f.results) + 1]
      heard == [f EXCEPT !.carrier = Append(@, CarrierReport(phoneNumber, carrierOk))]
  IN
  /\ f.pc = "twilio"
  /\ IF ~carrierOk
       THEN call' = [call EXCEPT ![r] = Thrown(f)]
       ELSE IF f.messageId # NoId
         THEN call' = [call EXCEPT ![r] =
                [heard EXCEPT !.pc = "twilioInsertSent", !.pending = "SM1"]]
         ELSE call' = [call EXCEPT ![r] =
                PushResult(heard, Result(phoneNumber, "sent", "SM1", "none", "twilio"))]
  /\ UNCHANGED <<authVars, config, provider, messages, recipients, inflight, dbFaults>>

\* services/flexibleSmsService.js:110-132, 141-147  client.messages.create for
\* the next destination; without a messageId the result is pushed at once.
TwilioCreate(r, carrierOk) ==
  LET f == call[r]
      phoneNumber == f.recipients[Len(f.results) + 1]
      heard == [f EXCEPT !.carrier = Append(@, CarrierReport(phoneNumber, carrierOk))]
  IN
  /\ f.pc = "twilio"
  /\ IF f.messageId # NoId
       THEN call' = [call EXCEPT ![r] =
              [heard EXCEPT !.pc = IF carrierOk THEN "twilioInsertSent" ELSE "twilioInsertFailed",
                            !.pending = IF carrierOk THEN "SM1" ELSE "carrier error"]]
       ELSE call' = [call EXCEPT ![r] =
              PushResult(heard, IF carrierOk
                              THEN Result(phoneNumber, "sent", "SM1", "none", "twilio")
                              ELSE Result(phoneNumber, "failed", "none", "carrier error", "twilio"))]
  /\ UNCHANGED <<authVars, config, provider, messages, recipients, inflight, dbFaults>>

\* an insert that also counts the destination on the Message at once
TwilioInsertSent_Counting(r, dbOk) ==
  LET f == call[r]
      phoneNumber == f.recipients[Len(f.results) + 1]
  IN
  /\ f.pc = "twilioInsertSent"
  /\ IF dbOk
       THEN /\ recipients' = InsertRow(recipients,
                 RecipientRow(f.messageId, phoneNumber, "sent", f.pending, "none"))
            /\ messages' = [messages EXCEPT ![f.messageId].successful_sends = @ + 1]
            /\ call' = [call EXCEPT ![r] =
                 PushResult(f, Result(phoneNumber, "sent", f.pending, "none", "twilio"))]
       ELSE /\ recipients' = recipients
            /\ messages' = messages
            /\ call' = [call EXCEPT ![r] =
                 [f EXCEPT !.pc = "twilioInsertFailed", !.pending = "db error"]]
  /\ Query(dbOk)
  /\ UNCHANGED <<authVars, config, provider, inflight>>

\* services/flexibleSmsService.js:133-140  INSERT of the 'sent' row inside try:
\* a rejected query lands in the catch of the same iteration.
TwilioInsertSent(r, dbOk) ==
  LET f == call[r]
      phoneNumber == f.recipients[Len(f.results) + 1]
  IN
  /\ f.pc = "twilioInsertSent"
  /\ IF dbOk
       THEN /\ recipients' = InsertRow(recipients,
                 RecipientRow(f.messageId, phoneNumber, "sent", f.pending, "none"))
            /\ call' = [call EXCEPT ![r] =
                 PushResult(f, Result(phoneNumber, "sent", f.pending, "none", "twilio"))]
       ELSE /\ recipients' = recipients
            /\ call' = [call EXCEPT ![r] =
                 [f EXCEPT !.pc = "twilioInsertFailed", !.pending = "db error"]]
  /\ Query(dbOk)
  /\ UNCHANGED <<authVars, config, provider, messages, inflight>>

\* services/flexibleSmsService.js:149-156  INSERT of the 'failed' row inside
\* catch: a rejected query leaves sendViaTwilio and sendSMS rethrows.
TwilioInsertFailed(r, dbOk) ==
  LET f == call[r]
      phoneNumber == f.recipients[Len(f.results) + 1]
  IN
  /\ f.pc = "twilioInsertFailed"
  /\ IF dbOk
       THEN /\ recipients' = InsertRow(recipients,
                 RecipientRow(f.messageId, phoneNumber, "failed", "none", f.pending))
            /\ call' = [call EXCEPT ![r] =
                 PushResult(f, Result(phoneNumber, "failed", "none", f.pending, "twilio"))]
       ELSE /\ recipients' = recipients
            /\ call' = [call EXCEPT ![r] = Thrown(f)]
  /\ Query(dbOk)
  /\ UNCHANGED <<authVars, config, provider, messages, inflight>>

\* -------------------------------------------------------------------- mock
\* an iteration that gives the whole dispatch up when its destination fails
MockIteration_AbortsOnFailure(r, isSuccess, dbOk) ==
  LET f == call[r]
      phoneNumber == f.recipients[Len(f.results) + 1]
      result == Result(phoneNumber, "sent", "mock_id", "none", "mock")
      heard == [f EXCEPT !.carrier = Append(@, CarrierReport(phoneNumber, isSuccess))]
  IN
  /\ f.pc = "mock"
  /\ IF ~isSuccess
       THEN /\ dbOk
            /\ dbFaults' = dbFaults
            /\ recipients' = recipients
            /\ call' = [call EXCEPT ![r] = Thrown(f)]
       ELSE IF f.messageId = NoId
       THEN /\ dbOk
            /\ dbFaults' = dbFaults
            /\ recipients' = recipients
            /\ call' = [call EXCEPT ![r] = PushResult(heard, result)]
       ELSE IF dbOk
         THEN /\ Query(dbOk)
              /\ recipients' = InsertRow(recipients,
                   RecipientRow(f.messageId, phoneNumber, result.status,
                                result.messageId, result.error))
              /\ call' = [call EXCEPT ![r] = PushResult(heard, result)]
         ELSE /\ Query(dbOk)
              /\ recipients' = recipients
              /\ call' = [call EXCEPT ![r] = Thrown(f)]
  /\ UNCHANGED <<authVars, config, provider, messages, inflight>>

\* an iteration that writes its row under the id of the newest Message (as a
\* message id kept on the shared service object would be)
MockIteration_LatestMessage(r, isSuccess, dbOk) ==
  LET f == call[r]
      phoneNumber == f.recipients[Len(f.results) + 1]
      result == Result(phoneNumber, IF isSuccess THEN "sent" ELSE "failed", "mock_id",
                       IF isSuccess THEN "none" ELSE "Mock failure for testing", "mock")
      heard == [f EXCEPT !.carrier = Append(@, CarrierReport(phoneNumber, isSuccess))]
  IN
  /\ f.pc = "mock"
  /\ IF f.messageId = NoId
       THEN /\ dbOk
            /\ dbFaults' = dbFaults
            /\ recipients' = recipients
            /\ call' = [call EXCEPT ![r] = PushResult(heard, result)]
       ELSE IF dbOk
         THEN /\ Query(dbOk)
              /\ recipients' = InsertRow(recipients,
                   RecipientRow(Len(messages), phoneNumber, result.status,
                                result.messageId, result.error))
              /\ call' = [call EXCEPT ![r] = PushResult(heard, result)]
         ELSE /\ Query(dbOk)
              /\ recipients' = recipients
              /\ call' = [call EXCEPT ![r] = Thrown(f)]
  /\ UNCHANGED <<authVars, config, provider, messages, inflight>>

\* services/flexibleSmsService.js:220-243  one iteration of the mock loop
\* (Math.random() > 0.1 is the drawn isSuccess; the 100 ms delay changes nothing)
MockIteration(r, isSuccess, dbOk) ==
  LET f == call[r]
      phoneNumber == f.recipients[Len(f.results) + 1]
      result == Result(phoneNumber, IF isSuccess THEN "sent" ELSE "failed", "mock_id",
                       IF isSuccess THEN "none" ELSE "Mock failure for testing", "mock")
      heard == [f EXCEPT !.carrier = Append(@, CarrierReport(phoneNumber, isSuccess))]
  IN
  /\ f.pc = "mock"
  /\ IF f.messageId = NoId
       THEN /\ dbOk
            /\ dbFaults' = dbFaults
            /\ recipients' = recipients
            /\ call' = [call EXCEPT ![r] = PushResult(heard, result)]
       ELSE IF dbOk
         THEN /\ Query(dbOk)
              /\ recipients' = InsertRow(recipients,
                   RecipientRow(f.messageId, phoneNumber, result.status,
                                result.messageId, result.error))
              /\ call' = [call EXCEPT ![r] = PushResult(heard, result)]
         ELSE /\ Query(dbOk)
              /\ recipients' = recipients
              /\ call' = [call EXCEPT ![r] = Thrown(f)]
  /\ UNCHANGED <<authVars, config, provider, messages, inflight>>

\* --------------------------------------------------------- Africa's Talking
\* What client.send(options) can resolve to: SMSMessageData.Recipients, one
\* entry per number the carrier chose to report on (it may report on fewer
\* numbers than were passed, and in its own order).
ATEntry == [number : Phones, status : {"Success", "InvalidPhoneNumber"}]
ATResponses(n) == {<<>>} \cup SeqsUpTo(ATEntry, n)

\* messageId the carrier puts on an entry ("None" when it accepted nothing)
ATMessageId(entry) == IF entry.status = "Success" THEN "ATXid_1" ELSE "None"

\* services/flexibleSmsService.js:174-191  results built from the response
ATResults(dests, response) ==
  [k \in DOMAIN response |->
     Result(dests[k],
            IF response[k].status = "Success" THEN "sent" ELSE "failed",
            ATMessageId(response[k]), "none", "africastalking")]

\* services/flexibleSmsService.js:183-188  the INSERTs issued (not awaited) in forEach
ATInserts(mid, dests, response) ==
  {[idx |-> k,
    row |-> RecipientRow(mid, dests[k],
                         IF response[k].status = "Success" THEN "sent" ELSE "failed",
                         ATMessageId(response[k]), "none")] : k \in DOMAIN response}

\* services/flexibleSmsService.js:174-177  what the response says, entry by entry
ATReports(response) ==
  [k \in DOMAIN response |->
     CarrierReport(response[k].number, response[k].status = "Success")]

\* the catch marking only the first destination failed
ATFailedResults_FirstOnly(dests, msg) ==
  [k \in DOMAIN dests |->
     IF k = 1 THEN Result(dests[k], "failed", "none", msg, "africastalking")
     ELSE Result(dests[k], "sent", "none", "none", "africastalking")]

\* services/flexibleSmsService.js:196-201  catch: every destination failed
ATFailedResults(dests, msg) ==
  [k \in DOMAIN dests |-> Result(dests[k], "failed", "none", msg, "africastalking")]

\* services/flexibleSmsService.js:203-210  the INSERTs issued (not awaited) in catch
ATFailedInserts(mid, dests, msg) ==
  {[idx |-> k, row |-> RecipientRow(mid, dests[k], "failed", "none", msg)] : k \in DOMAIN dests}

\* how await this.client.send(options) can end: a response, the call rejecting
\* ("throw": timeout, authentication failure), or a resolved value without
\* SMSMessageData ("malformed")
ATOutcomes(n) ==
  {[kind |-> "response", Recipients |-> resp] : resp \in ATResponses(n)}
    \cup {[kind |-> k, Recipients |-> <<>>] : k \in {"throw", "malformed"}}

\* error.message in the catch: the carrier's text when the call rejected, the
\* TypeError's when response.SMSMessageData is undefined (line 174)
ATErrorMessage(outcome) ==
  IF outcome.kind = "throw" THEN "carrier error"
  ELSE "Cannot read properties of undefined"

\* the carrier reports on numbers it was given, each at most once
ReportsOn(response, dests) ==
  /\ \A k \in DOMAIN response : \E j \in DOMAIN dests : response[k].number = dests[j]
  /\ \A j, k \in DOMAIN response : response[j].number = response[k].number => j = k

\* services/flexibleSmsService.js:164-214  the one bulk call
SendViaAfricasTalking(r, outcome) ==
  LET f == call[r]
      isResponse == outcome.kind = "response"
      msg == ATErrorMessage(outcome)
      results == IF isResponse THEN ATResults(f.recipients, outcome.Recipients)
                 ELSE ATFailedResults(f.recipients, msg)
      inserts == IF isResponse THEN ATInserts(f.messageId, f.recipients, outcome.Recipients)
                 ELSE ATFailedInserts(f.messageId, f.recipients, msg)
  IN
  /\ f.pc = "africastalking"
  /\ ReportsOn(outcome.Recipients, f.recipients)
  /\ inflight' = IF f.messageId # NoId THEN inflight \cup inserts ELSE inflight
  /\ call' = [call EXCEPT ![r] =
       AfterAdapter([f EXCEPT !.results = results,
                              !.carrier = ATReports(outcome.Recipients),
                              !.bulkError = IF isResponse THEN "none" ELSE msg])]
  /\ UNCHANGED <<authVars, config, provider, messages, recipients, dbFaults>>

\* a query issued without await reaches the database some time later; when it
\* is rejected nobody is awaiting it and the row is simply not written
RunInsert(q, dbOk) ==
  /\ q \in inflight
  /\ inflight' = inflight \ {q}
  /\ recipients' = IF dbOk THEN InsertRow(recipients, q.row) ELSE recipients
  /\ Query(dbOk)
  /\ UNCHANGED <<authVars, config, provider, messages, call>>

\* ------------------------------------------------------------ sendSMS tail
\* an update that counts every destination as failed on top of the sent ones
UpdateStatistics_AllFailed(r, dbOk) ==
  LET f == call[r]
      successCount == CountStatus(f.results, "sent")
      failedCount == Len(f.recipients)
  IN
  /\ f.pc = "update"
  /\ IF dbOk
       THEN /\ messages' = [messages EXCEPT ![f.messageId] =
                 [@ EXCEPT !.successful_sends = successCount, !.failed_sends = failedCount]]
            /\ call' = [call EXCEPT ![r] = Returned(f)]
       ELSE /\ messages' = messages
            /\ call' = [call EXCEPT ![r] = Thrown(f)]
  /\ Query(dbOk)
  /\ UNCHANGED <<authVars, config, provider, recipients, inflight>>

\* services/flexibleSmsService.js:78-98  UPDATE messages SET successful_sends,
\* failed_sends, then return the summary
UpdateStatistics(r, dbOk) ==
  LET f == call[r]
      successCount == CountStatus(f.results, "sent")
      failedCount == CountStatus(f.results, "failed")
  IN
  /\ f.pc = "update"
  /\ IF dbOk
       THEN /\ messages' = [messages EXCEPT ![f.messageId] =
                 [@ EXCEPT !.successful_sends = successCount, !.failed_sends = failedCount]]
            /\ call' = [call EXCEPT ![r] = Returned(f)]
       ELSE /\ messages' = messages
            /\ call' = [call EXCEPT ![r] = Thrown(f)]
  /\ Query(dbOk)
  /\ UNCHANGED <<authVars, config, provider, recipients, inflight>>

\* ------------------------------------------------------------------ resend
\* services/flexibleSmsService.js:4-263  the methods the exported singleton has
FlexibleSMSServiceMethods ==
  {"initializeProvider", "sendSMS", "sendViaTwilio", "sendViaAfricasTalking",
   "sendViaMock", "sendOTP"}

\* what SELECT ... WHERE id = $1 AND user_id = $2 would find (part of
\* services/smsService.js getMessageDetails, the lookup the handler asks for)
Owned(u, messageId) ==
  messageId \in DOMAIN messages /\ messages[messageId].user_id = u

\* the rows of a message with a given delivery_status, as a bag
RowsOf(messageId, status) ==
  LET rows == {row \in BagToSet(recipients) :
                 row.message_id = messageId /\ row.delivery_status = status}
  IN [row \in rows |-> recipients[row]]

\* a resend that retries in place: the failed rows of the original are marked
\* sent and its counters rewritten
ResendRoute_InPlace(r, u, messageId) ==
  /\ call[r].pc = "idle"
  /\ \A q \in Requests : q < r => call[q].pc # "idle"
  /\ call' = [call EXCEPT ![r] =
       [IdleFrame EXCEPT !.pc = "responded", !.kind = "resend", !.userId = u,
                         !.target = messageId,
                         !.seen = [owned |-> Owned(u, messageId),
                                   failed |-> BagCardinality(RowsOf(messageId, "failed"))],
                         !.res = [status |-> 200, message |-> "Failed messages resent"]]]
  /\ IF Owned(u, messageId)
       THEN messages' = [messages EXCEPT ![messageId] =
              [@ EXCEPT !.successful_sends = @ + messages[messageId].failed_sends,
                        !.failed_sends = 0]]
       ELSE messages' = messages
  /\ UNCHANGED <<authVars, config, provider, recipients, inflight, dbFaults>>

\* routes/sms.js:219-272  POST /messages/:messageId/resend.  smsService is the
\* flexibleSmsService singleton (routes/sms.js:7); calling a property it does
\* not have is a TypeError raised before anything is read or written, and the
\* handler's catch answers 500 with the error's message.
ResendRoute(r, u, messageId) ==
  /\ call[r].pc = "idle"
  /\ \A q \in Requests : q < r => call[q].pc # "idle"
  /\ "getMessageDetails" \notin FlexibleSMSServiceMethods
  /\ call' = [call EXCEPT ![r] =
       [IdleFrame EXCEPT !.pc = "responded", !.kind = "resend", !.userId = u,
                         !.target = messageId,
                         \* what the database held for :messageId at this moment
                         \* (not read by the handler; recorded to state the claims)
                         !.seen = [owned |-> Owned(u, messageId),
                                   failed |-> BagCardinality(RowsOf(messageId, "failed"))],
                         !.res = [status |-> 500,
                                  message |-> "smsService.getMessageDetails is not a function"]]]
  /\ UNCHANGED <<authVars, config, provider, messages, recipients, inflight, dbFaults>>

\* ---------------------------------------------------------------- send-csv
\* routes/sms.js:121-123  useRealAPI: AFRICASTALKING_API_KEY set and not the
\* sandbox placeholder.  The key is the credential of the configuration when
\* the configured carrier is Africa's Talking; otherwise it may be set or not.
UseRealAPI(useReal) ==
  config.provider = "africastalking" => (useReal <=> config.cred = "valid")

\* routes/sms.js:57-157  POST /send-csv: the numbers of the file are sanitized
\* and deduplicated, then the handler picks sendBulkSMS or sendMockSMS by
\* useRealAPI.  Neither is a method of the flexibleSmsService singleton: the
\* call is a TypeError and the catch answers 500 with its message.
CsvRoute(r, u, body, raw, useReal) ==
  LET recipientsOfFile == [k \in DOMAIN raw |-> sanitizePhoneNumber(raw[k])]
      method == IF useReal THEN "sendBulkSMS" ELSE "sendMockSMS"
  IN
  /\ call[r].pc = "idle"
  /\ \A q \in Requests : q < r => call[q].pc # "idle"
  /\ UseRealAPI(useReal)
  /\ call' = [call EXCEPT ![r] =
       [IdleFrame EXCEPT !.pc = "responded", !.kind = "csv", !.userId = u,
                         !.res = IF Len(recipientsOfFile) = 0
                                 THEN [status |-> 400,
                                       message |-> "No valid phone numbers found in CSV file"]
                                 ELSE IF method \in FlexibleSMSServiceMethods
                                 THEN [status |-> 200,
                                       message |-> "SMS sending initiated from CSV"]
                                 ELSE IF useReal
                                 THEN [status |-> 500,
                                       message |-> "smsService.sendBulkSMS is not a function"]
                                 ELSE [status |-> 500,
                                       message |-> "smsService.sendMockSMS is not a function"]]]
  /\ UNCHANGED <<authVars, config, provider, messages, recipients, inflight, dbFaults>>

\* -------------------------------------------------------------------- Next
Next ==
  \/ \E r \in Requests, u \in Senders, b \in Bodies, raw \in SeqsUpTo(RawPhones, MaxDest) :
       SendRoute(r, u, b, raw)
  \/ \E r \in Requests, b \in Bodies, phoneNumber \in Phones : SendDry(r, b, phoneNumber)
  \/ \E r \in Requests, dbOk \in BOOLEAN : InsertMessage(r, dbOk)
  \/ \E r \in Requests, ok \in BOOLEAN : TwilioCreate(r, ok)
  \/ \E r \in Requests, dbOk \in BOOLEAN : TwilioInsertSent(r, dbOk)
  \/ \E r \in Requests, dbOk \in BOOLEAN : TwilioInsertFailed(r, dbOk)
  \/ \E r \in Requests, ok \in BOOLEAN, dbOk \in BOOLEAN : MockIteration(r, ok, dbOk)
  \/ \E r \in Requests, outcome \in ATOutcomes(MaxDest) : SendViaAfricasTalking(r, outcome)
  \/ \E q \in inflight, dbOk \in BOOLEAN : RunInsert(q, dbOk)
  \/ \E r \in Requests, dbOk \in BOOLEAN : UpdateStatistics(r, dbOk)
  \/ \E r \in Requests, u \in Users, m \in MessageIds : ResendRoute(r, u, m)
  \/ \E r \in Requests, u \in Senders, b \in Bodies, useReal \in BOOLEAN,
          raw \in {<<>>} \cup SeqsUpTo(RawPhones, MaxDest) : CsvRoute(r, u, b, raw, useReal)

Spec == Init /\ [][Next]_vars

SpecAnyConfig == InitAnyConfig /\ [][Next]_vars

\* ------------------------------------------------- dispatch with a healthy database
\* The dispatches of the adapters that loop over the destinations (Twilio,
\* mock), every pool.query resolving and every carrier call answering (with
\* an acceptance or a rejection).  Node's event loop runs the
\* continuation of every settled promise, so each call that can take a step
\* eventually takes one.
Step(r) ==
  \/ InsertMessage(r, TRUE)
  \/ \E ok \in BOOLEAN : TwilioCreate(r, ok)
  \/ TwilioInsertSent(r, TRUE)
  \/ TwilioInsertFailed(r, TRUE)
  \/ \E ok \in BOOLEAN : MockIteration(r, ok, TRUE)
  \/ UpdateStatistics(r, TRUE)

NextLive ==
  \/ \E r \in Requests, u \in Senders, b \in Bodies, raw \in SeqsUpTo(RawPhones, MaxDest) :
       SendRoute(r, u, b, raw)
  \/ \E r \in Requests, b \in Bodies, phoneNumber \in Phones : SendDry(r, b, phoneNumber)
  \/ \E r \in Requests : Step(r)

\* the providers whose adapter loops over the destinations
LiveInit == InitWith({c \in WorkingConfigs : c.provider \in {"twilio", "mock"}})

SpecLive ==
  /\ LiveInit
  /\ [][NextLive]_vars
  /\ \A r \in Requests : WF_vars(Step(r))

\* ========================================================== legacy service
\* services/smsService.js (src/unnamed/part_002): the SMSService singleton, the
\* module that has the sendBulkSMS / sendMockSMS / getMessageDetails methods
\* the SMS routes name.  It always goes through Africa's Talking.
\* -------------------------------------------------------------- sendBulkSMS
\* UPDATE recipients SET ... WHERE ...: the rows that match are rewritten in
\* place (rows that become equal are counted together)
UpdateRecipients(table, messageId, numbers, status, errorMessage) ==
  LET rows == BagToSet(table)
      After(x) == IF x.message_id = messageId /\ x.phone_number \in numbers
                  THEN [x EXCEPT !.delivery_status = status, !.error_message = errorMessage]
                  ELSE x
  IN [y \in {After(x) : x \in rows} |->
        BagCardinality([x \in {z \in rows : After(z) = y} |-> table[x]])]

\* services/smsService.js:92-95  catch: throw new Error('Failed to send bulk SMS: ...')
LegacyThrown(f) ==
  [IdleFrame EXCEPT !.pc = "thrown", !.kind = f.kind, !.dbFailed = TRUE,
                    !.userId = f.userId, !.messageId = f.messageId]

\* services/smsService.js:15-17  sendBulkSMS(messageContent, recipients, userId)
\* called with a list of distinct numbers, up to its first await
SendBulkSMS(r, u, body, dests) ==
  /\ call[r].pc = "idle"
  /\ \A q \in Requests : q < r => call[q].pc # "idle"
  /\ uniqueRecipients(dests) = dests
  /\ call' = [call EXCEPT ![r] =
       [IdleFrame EXCEPT !.kind = "bulk", !.recipients = dests, !.body = body,
                         !.userId = u, !.pc = "legacyInsertMessage"]]
  /\ UNCHANGED <<authVars, config, provider, messages, recipients, inflight, dbFaults>>

\* services/smsService.js:18-31  INSERT INTO messages ... RETURNING id, then one
\* INSERT of a 'pending' row per recipient, all issued before any is awaited
LegacyInsertMessage(r, dbOk) ==
  LET f == call[r]
      mid == Len(messages) + 1
  IN
  /\ f.pc = "legacyInsertMessage"
  /\ IF dbOk
       THEN /\ messages' = Append(messages, MessageRow(f.userId, f.body, Len(f.recipients)))
            /\ inflight' = inflight \cup
                 {[idx |-> k, row |-> RecipientRow(mid, f.recipients[k], "pending", "none", "none")] :
                    k \in DOMAIN f.recipients}
            /\ call' = [call EXCEPT ![r] = [f EXCEPT !.messageId = mid, !.pc = "legacyPending"]]
       ELSE /\ messages' = messages
            /\ inflight' = inflight
            /\ call' = [call EXCEPT ![r] = LegacyThrown(f)]
  /\ Query(dbOk)
  /\ UNCHANGED <<authVars, config, provider, recipients>>

\* services/smsService.js:26-33  one of the INSERTs runs; await Promise.all
\* resolves when the last one has, and rejects with the first rejection (the
\* other INSERTs still run)
LegacyRunInsert(q, dbOk) ==
  LET waiting == {r \in Requests : call[r].pc = "legacyPending"
                                     /\ call[r].messageId = q.row.message_id}
      left == {x \in inflight \ {q} : x.row.message_id = q.row.message_id}
  IN
  /\ q \in inflight
  /\ inflight' = inflight \ {q}
  /\ recipients' = IF dbOk THEN InsertRow(recipients, q.row) ELSE recipients
  /\ call' = [r \in Requests |->
                IF r \notin waiting THEN call[r]
                ELSE IF ~dbOk THEN LegacyThrown(call[r])
                ELSE IF left = {} THEN [call[r] EXCEPT !.pc = "legacySend"]
                ELSE call[r]]
  /\ Query(dbOk)
  /\ UNCHANGED <<authVars, config, provider, messages>>

\* services/smsService.js:39-49, 66-68  await sms.send(options): a response
\* with Recipients is worked through entry by entry, a response without
\* SMSMessageData leaves nothing to do, a rejection lands in the inner catch
LegacySend(r, outcome) ==
  LET f == call[r]
      heard == [f EXCEPT !.carrier = ATReports(outcome.Recipients)]
  IN
  /\ f.pc = "legacySend"
  /\ ReportsOn(outcome.Recipients, f.recipients)
  /\ call' = [call EXCEPT ![r] =
       CASE outcome.kind = "throw" ->
              [f EXCEPT !.pc = "legacyMarkAll", !.bulkError = "API Error: carrier error"]
         [] outcome.kind = "malformed" \/ outcome.Recipients = <<>> ->
              [f EXCEPT !.pc = "legacyUpdate"]
         [] OTHER -> [heard EXCEPT !.pc = "legacyUpdateRow"]]
  /\ UNCHANGED <<authVars, config, provider, messages, recipients, inflight, dbFaults>>

\* services/smsService.js:50-64  UPDATE recipients SET delivery_status,
\* error_message WHERE message_id = $3 AND phone_number = recipient.number for
\* the next entry of the response; a rejected UPDATE lands in the inner catch
LegacyUpdateRecipient(r, dbOk) ==
  LET f == call[r]
      entry == f.carrier[Len(f.results) + 1]
      status == IF entry.ok THEN "sent" ELSE "failed"
      errorMessage == IF entry.ok THEN "none" ELSE "InvalidPhoneNumber"
      g == [f EXCEPT !.results = Append(@, Result(entry.number, status, "none", errorMessage,
                                                  "africastalking"))]
  IN
  /\ f.pc = "legacyUpdateRow"
  /\ IF dbOk
       THEN /\ recipients' = UpdateRecipients(recipients, f.messageId, {entry.number},
                                                  status, errorMessage)
            /\ call' = [call EXCEPT ![r] =
                 [g EXCEPT !.pc = IF Len(g.results) = Len(g.carrier) THEN "legacyUpdate"
                                  ELSE "legacyUpdateRow"]]
       ELSE /\ recipients' = recipients
            /\ call' = [call EXCEPT ![r] =
                 [f EXCEPT !.pc = "legacyMarkAll", !.bulkError = "API Error: db error"]]
  /\ Query(dbOk)
  /\ UNCHANGED <<authVars, config, provider, messages, inflight>>

\* services/smsService.js:66-76  inner catch: UPDATE recipients SET
\* delivery_status = 'failed' WHERE message_id = $3, failCount = recipients.length;
\* a rejected UPDATE leaves through the outer catch
LegacyMarkAllFailed(r, dbOk) ==
  LET f == call[r] IN
  /\ f.pc = "legacyMarkAll"
  /\ IF dbOk
       THEN /\ recipients' = UpdateRecipients(recipients, f.messageId, Phones,
                                                  "failed", f.bulkError)
            /\ call' = [call EXCEPT ![r] = [f EXCEPT !.pc = "legacyUpdate"]]
       ELSE /\ recipients' = recipients
            /\ call' = [call EXCEPT ![r] = LegacyThrown(f)]
  /\ Query(dbOk)
  /\ UNCHANGED <<authVars, config, provider, messages, inflight>>

\* services/smsService.js:78-90  UPDATE messages SET successful_sends =
\* successCount, failed_sends = failCount, then return
LegacyUpdateStatistics(r, dbOk) ==
  LET f == call[r]
      successCount == CountStatus(f.results, "sent")
      failCount == IF f.bulkError # "none" THEN Len(f.recipients)
                   ELSE CountStatus(f.results, "failed")
  IN
  /\ f.pc = "legacyUpdate"
  /\ IF dbOk
       THEN /\ messages' = [messages EXCEPT ![f.messageId] =
                 [@ EXCEPT !.successful_sends = successCount, !.failed_sends = failCount]]
            /\ call' = [call EXCEPT ![r] =
                 [f EXCEPT !.pc = "returned",
                           !.summary = [total |-> Len(f.recipients), sent |-> successCount,
                                        failed |-> failCount, provider |-> "africastalking",
                                        messageId |-> f.messageId]]]
       ELSE /\ messages' = messages
            /\ call' = [call EXCEPT ![r] = LegacyThrown(f)]
  /\ Query(dbOk)
  /\ UNCHANGED <<authVars, config, provider, recipients, inflight>>

\* the legacy module is loaded with an Africa's Talking key (its line 10 runs
\* at require time)
LegacyInit == InitWith({c \in Configs : c.provider = "africastalking" /\ c.cred = "valid"})

NextLegacy ==
  \/ \E r \in Requests, u \in Senders, b \in Bodies, dests \in SeqsUpTo(Phones, MaxDest) :
       SendBulkSMS(r, u, b, dests)
  \/ \E r \in Requests, dbOk \in BOOLEAN : LegacyInsertMessage(r, dbOk)
  \/ \E q \in inflight, dbOk \in BOOLEAN : LegacyRunInsert(q, dbOk)
  \/ \E r \in Requests, outcome \in ATOutcomes(MaxDest) : LegacySend(r, outcome)
  \/ \E r \in Requests, dbOk \in BOOLEAN : LegacyUpdateRecipient(r, dbOk)
  \/ \E r \in Requests, dbOk \in BOOLEAN : LegacyMarkAllFailed(r, dbOk)
  \/ \E r \in Requests, dbOk \in BOOLEAN : LegacyUpdateStatistics(r, dbOk)

SpecLegacy == LegacyInit /\ [][NextLegacy]_vars

\* ================================================================ accounts
\* routes/auth.js is src/unnamed/part_000 from line 276 on (line numbers below
\* are those of that file); routes/otp.js is the tail of src/routes/templates.js.
\* ------------------------------------------------------------------ tables
\* bcrypt.hash / bcrypt.compare (routes/auth.js:306, 444, 590)
Hash(password) == <<"bcrypt", password>>
Compare(password, hash) == hash = Hash(password)

\* database/complete_schema.sql:8-18  a users row as /register inserts it
UserRow(email, phoneNumber, password) ==
  [email |-> email, phone_number |-> phoneNumber, password_hash |-> Hash(password),
   is_verified |-> FALSE, phone_verified |-> FALSE, present |-> TRUE]

\* database/complete_schema.sql:21-31  an otp_verifications row as sendOTP
\* inserts it; expired stands for expires_at <= NOW()
OtpRow(userId, phoneNumber, code, purpose) ==
  [user_id |-> userId, phone_number |-> phoneNumber, otp_code |-> code, purpose |-> purpose,
   is_verified |-> FALSE, attempts |-> 0, expired |-> FALSE, present |-> TRUE]

MaxOf(S) == IF S = {} THEN NoId ELSE CHOOSE x \in S : \A y \in S : y <= x

\* routes/auth.js:292-295  SELECT id FROM users WHERE email = $1 OR phone_number = $2
ExistingUsers(email, phoneNumber) ==
  {u \in DOMAIN users : users[u].present
                         /\ (users[u].email = email \/ users[u].phone_number = phoneNumber)}

\* routes/auth.js:525-528  SELECT id FROM users WHERE phone_number = $1
UserByPhone(phoneNumber) ==
  MaxOf({u \in DOMAIN users : users[u].present /\ users[u].phone_number = phoneNumber})

\* routes/auth.js:371-374  ... WHERE phone_number = $1 AND is_verified = false
UnverifiedUserByPhone(phoneNumber) ==
  MaxOf({u \in DOMAIN users : users[u].present /\ users[u].phone_number = phoneNumber
                               /\ ~users[u].is_verified})

\* routes/auth.js:429-432  ... WHERE email = $1
UserByEmail(email) ==
  MaxOf({u \in DOMAIN users : users[u].present /\ users[u].email = email})

\* a lookup that does not ask for the purpose
MatchingOtp_AnyPurpose(phoneNumber, otp, purpose) ==
  MaxOf({i \in DOMAIN otps :
           /\ otps[i].present
           /\ otps[i].phone_number = phoneNumber
           /\ otps[i].otp_code = otp
           /\ ~otps[i].is_verified
           /\ ~otps[i].expired})

\* services/otpService.js:41-48  the newest row with this phone, code and
\* purpose that is neither verified nor expired
MatchingOtp(phoneNumber, otp, purpose) ==
  MaxOf({i \in DOMAIN otps :
           /\ otps[i].present
           /\ otps[i].phone_number = phoneNumber
           /\ otps[i].otp_code = otp
           /\ otps[i].purpose = purpose
           /\ ~otps[i].is_verified
           /\ ~otps[i].expired})

\* services/otpService.js:52-57  the newest row with this phone and purpose
LatestOtp(phoneNumber, purpose) ==
  MaxOf({i \in DOMAIN otps :
           otps[i].present /\ otps[i].phone_number = phoneNumber /\ otps[i].purpose = purpose})

\* services/otpService.js:6-8  generateOTP: a random six-digit code.  The
\* draws of one run differ from one another: the code of the n-th row is the
\* n-th code.
generateOTP(n) == 100000 + n

\* services/otpService.js:76  if (otpRecord.attempts >= 3)
AttemptLimit == 3

\* ----------------------------------------------------------------- helpers
\* a handler starts on a free slot (slots are interchangeable: the lowest
\* free one is taken)
Start(p) ==
  /\ auth[p].pc = "idle"
  /\ \A q \in AuthProcs : q < p => auth[q].pc # "idle"

\* the handlers that issue an OTP (sign-up, password-reset request, OTP send)
\* run one at a time; the handlers that verify a code overlap with one
\* another, and a login is a single query
StartAlone(p) ==
  /\ Start(p)
  /\ \A q \in AuthProcs : auth[q].pc = "idle"

\* the handler answers and its slot is free again
Answer(p) == auth' = [auth EXCEPT ![p] = AuthIdle]

\* room left in the tables for the rows the running handlers will still insert
UserRoom ==
  Len(users) + Cardinality({q \in AuthProcs : auth[q].pc = "insertUser"}) < MaxUsers

OtpRoom ==
  Len(otps) + Cardinality({q \in AuthProcs : auth[q].pc \in {"insertUser", "insertOtp"}})
    < MaxOtps

RECURSIVE SumAttempts(_)
SumAttempts(n) == IF n = 0 THEN 0 ELSE otps[n].attempts + SumAttempts(n - 1)

AttemptsRoom ==
  SumAttempts(Len(otps))
    + Cardinality({q \in AuthProcs : auth[q].pc \in {"expiredCheck", "incAttempts"}})
    < MaxAttempts

\* verifyOTP returned {success: false, message: 'Invalid or expired OTP'}
CountWrongTry(f) ==
  wrongTries' = [wrongTries EXCEPT ![<<f.phoneNumber, f.purpose>>] =
                   IF @ < AttemptLimit THEN @ + 1 ELSE @]

\* the dispatch part is not involved in an account step (the one call into
\* it, sendSMS without a userId, writes nothing)
DispatchIdle == UNCHANGED <<config, provider, messages, recipients, inflight, call>>

\* ---------------------------------------------------------------- register
\* routes/auth.js:287-302  POST /register up to the duplicate check
RegisterRoute(p, email, phoneNumber, password, dbOk) ==
  /\ StartAlone(p)
  /\ UserRoom
  /\ OtpRoom
  /\ Query(dbOk)
  /\ auth' = [auth EXCEPT ![p] =
       IF dbOk /\ ExistingUsers(email, phoneNumber) = {}
         THEN [AuthIdle EXCEPT !.pc = "insertUser", !.kind = "register", !.email = email,
                               !.phoneNumber = phoneNumber, !.password = password,
                               !.purpose = "registration"]
         ELSE AuthIdle]
  /\ UNCHANGED <<users, otps, tokens, wrongTries, verified, used>>
  /\ DispatchIdle

\* routes/auth.js:304-314  INSERT INTO users ... is_verified = false RETURNING id
\* (email and phone_number are UNIQUE: a duplicate is rejected, and the outer
\* catch answers 500)
InsertUser(p, dbOk) ==
  LET f == auth[p]
      accepted == dbOk /\ ExistingUsers(f.email, f.phoneNumber) = {}
  IN
  /\ f.pc = "insertUser"
  /\ Query(dbOk)
  /\ IF accepted
       THEN /\ users' = Append(users, UserRow(f.email, f.phoneNumber, f.password))
            /\ auth' = [auth EXCEPT ![p] = [f EXCEPT !.pc = "insertOtp",
                                                     !.userId = Len(users) + 1]]
       ELSE /\ users' = users
            /\ Answer(p)
  /\ UNCHANGED <<otps, tokens, wrongTries, verified, used>>
  /\ DispatchIdle

\* ----------------------------------------------------------------- sendOTP
\* services/otpService.js:11-21  generateOTP and INSERT INTO otp_verifications
\* (user_id REFERENCES users: the row of a user deleted meanwhile is rejected).
\* A rejected INSERT makes sendOTP throw: /register goes on to delete the
\* temporary user (routes/auth.js:329-331), the other routes answer 500.
InsertOtp(p, code, dbOk) ==
  LET f == auth[p]
      accepted == dbOk /\ (f.userId = NoId \/ users[f.userId].present)
  IN
  /\ f.pc = "insertOtp"
  /\ Query(dbOk)
  /\ IF accepted
       THEN /\ otps' = Append(otps, OtpRow(f.userId, f.phoneNumber, code, f.purpose))
            /\ wrongTries' = [wrongTries EXCEPT ![<<f.phoneNumber, f.purpose>>] = 0]
            /\ auth' = [auth EXCEPT ![p] = [f EXCEPT !.pc = "otpSms"]]
       ELSE /\ otps' = otps
            /\ wrongTries' = wrongTries
            /\ IF f.kind = "register"
                 THEN auth' = [auth EXCEPT ![p] = [f EXCEPT !.pc = "deleteUser"]]
                 ELSE Answer(p)
  /\ UNCHANGED <<users, tokens, verified, used>>
  /\ DispatchIdle

\* services/otpService.js:23-31  await smsService.sendSMS([phoneNumber], message):
\* without a userId sendSMS runs no query and every adapter catches the
\* carrier's failures, so it returns whatever the carrier did; the result is
\* not looked at: sendOTP returns success and the route is about to answer
\* 200 (isSuccess is what the carrier did with the one destination).
OtpSms(p, isSuccess) ==
  /\ auth[p].pc = "otpSms"
  /\ auth' = [auth EXCEPT ![p] = [@ EXCEPT !.pc = "answered", !.sent = isSuccess]]
  /\ UNCHANGED <<users, otps, tokens, wrongTries, verified, used, dbFaults>>
  /\ DispatchIdle

\* routes/auth.js:329-337  DELETE FROM users WHERE id = $1 (otp_verifications
\* rows go with it: ON DELETE CASCADE), then 500; a rejected DELETE lands in
\* the outer catch, which answers 500 as well
DeleteUser(p, dbOk) ==
  LET f == auth[p] IN
  /\ f.pc = "deleteUser"
  /\ Query(dbOk)
  /\ users' = IF dbOk THEN [users EXCEPT ![f.userId].present = FALSE] ELSE users
  /\ otps' = IF dbOk
               THEN [i \in DOMAIN otps |->
                       IF otps[i].user_id = f.userId THEN [otps[i] EXCEPT !.present = FALSE]
                       ELSE otps[i]]
               ELSE otps
  /\ auth' = [auth EXCEPT ![p] = [f EXCEPT !.pc = "answered", !.sent = FALSE]]
  /\ UNCHANGED <<tokens, wrongTries, verified, used>>
  /\ DispatchIdle

\* routes/auth.js:320-327, 333-337 (and routes/auth.js:542-548, routes/otp.js)
\* res.json / res.status(500).json after sendOTP: the handler is done
Respond(p) ==
  /\ auth[p].pc = "answered"
  /\ Answer(p)
  /\ UNCHANGED <<users, otps, tokens, wrongTries, verified, used, dbFaults>>
  /\ DispatchIdle

\* --------------------------------------------------------------- verifyOTP
\* services/otpService.js:39-82  the SELECT of the matching row and what
\* follows it without another query: no row -> the expired check is next;
\* a row with attempts >= 3 -> 'Too many failed attempts' (the route answers
\* 400); otherwise the row is going to be marked verified.
VerifyOTPSelect(p, kind, phoneNumber, otp, purpose, password, dbOk) ==
  LET m == MatchingOtp(phoneNumber, otp, purpose)
      f == [AuthIdle EXCEPT !.kind = kind, !.phoneNumber = phoneNumber,
                            !.purpose = purpose, !.password = password]
  IN
  /\ Start(p)
  /\ \A q \in AuthProcs : auth[q].kind \in {"none", "verify-registration", "reset-password"}
  /\ (dbOk /\ m = NoId) => AttemptsRoom
  /\ Query(dbOk)
  /\ auth' = [auth EXCEPT ![p] =
       IF ~dbOk THEN AuthIdle
       ELSE IF m = NoId THEN [f EXCEPT !.pc = "expiredCheck"]
       ELSE IF otps[m].attempts >= AttemptLimit THEN AuthIdle
       ELSE [f EXCEPT !.pc = "markVerified", !.otpId = m, !.otp = otp]]
  /\ UNCHANGED <<users, otps, tokens, wrongTries, verified, used>>
  /\ DispatchIdle

\* services/otpService.js:50-57, 67-70  SELECT the newest row of the phone and
\* purpose; without one verifyOTP returns 'Invalid or expired OTP'
ExpiredCheck(p, dbOk) ==
  LET f == auth[p]
      latest == LatestOtp(f.phoneNumber, f.purpose)
  IN
  /\ f.pc = "expiredCheck"
  /\ Query(dbOk)
  /\ IF dbOk /\ latest # NoId
       THEN auth' = [auth EXCEPT ![p] = [f EXCEPT !.pc = "incAttempts", !.otpId = latest]]
       ELSE Answer(p)
  /\ UNCHANGED <<users, otps, tokens, wrongTries, verified, used>>
  /\ DispatchIdle

\* services/otpService.js:59-70  UPDATE ... SET attempts = attempts + 1 WHERE
\* id = $1, then return 'Invalid or expired OTP' (the route answers 400)
IncAttempts(p, dbOk) ==
  LET f == auth[p] IN
  /\ f.pc = "incAttempts"
  /\ Query(dbOk)
  /\ IF dbOk
       THEN /\ otps' = IF otps[f.otpId].present
                         THEN [otps EXCEPT ![f.otpId].attempts = @ + 1]
                         ELSE otps
            /\ CountWrongTry(f)
       ELSE /\ otps' = otps
            /\ wrongTries' = wrongTries
  /\ Answer(p)
  /\ UNCHANGED <<users, tokens, verified, used>>
  /\ DispatchIdle

\* services/otpService.js:98-102 and the routes' next await: verifyOTP has
\* returned success; /verify-registration looks the user up
\* (routes/auth.js:371-374), /reset-password updates the password (:593-596)
VerifiedOk(f) ==
  [f EXCEPT !.pc = IF f.kind = "verify-registration" THEN "findUser" ELSE "updatePassword"]

\* services/otpService.js:84-95  UPDATE ... SET is_verified = TRUE WHERE id = $1
MarkVerified(p, dbOk) ==
  LET f == auth[p] IN
  /\ f.pc = "markVerified"
  /\ Query(dbOk)
  /\ IF dbOk
       THEN /\ otps' = IF otps[f.otpId].present
                         THEN [otps EXCEPT ![f.otpId].is_verified = TRUE]
                         ELSE otps
            /\ IF otps[f.otpId].user_id # NoId
                 THEN /\ auth' = [auth EXCEPT ![p] = [f EXCEPT !.pc = "markPhone"]]
                      /\ verified' = verified
                      /\ used' = used
                 ELSE /\ auth' = [auth EXCEPT ![p] = VerifiedOk(f)]
                      /\ verified' = verified \cup {<<f.phoneNumber, f.purpose>>}
                      /\ used' = used \cup {f.otpId}
       ELSE /\ otps' = otps
            /\ verified' = verified
            /\ used' = used
            /\ Answer(p)
  /\ UNCHANGED <<users, tokens, wrongTries>>
  /\ DispatchIdle

\* services/otpService.js:90-102  UPDATE users SET phone_verified = TRUE WHERE
\* id = otpRecord.user_id, then return success
MarkPhone(p, dbOk) ==
  LET f == auth[p]
      userId == otps[f.otpId].user_id
  IN
  /\ f.pc = "markPhone"
  /\ Query(dbOk)
  /\ IF dbOk
       THEN /\ users' = IF users[userId].present
                          THEN [users EXCEPT ![userId].phone_verified = TRUE]
                          ELSE users
            /\ auth' = [auth EXCEPT ![p] = VerifiedOk(f)]
            /\ verified' = verified \cup {<<f.phoneNumber, f.purpose>>}
            /\ used' = used \cup {f.otpId}
       ELSE /\ users' = users
            /\ verified' = verified
            /\ used' = used
            /\ Answer(p)
  /\ UNCHANGED <<otps, tokens, wrongTries>>
  /\ DispatchIdle

\* ------------------------------------------------------ verify-registration
\* routes/auth.js:349-368  POST /verify-registration: verifyOTP(phoneNumber, otp, 'registration')
VerifyRegistrationRoute(p, phoneNumber, otp, dbOk) ==
  VerifyOTPSelect(p, "verify-registration", phoneNumber, otp, "registration", "none", dbOk)

\* routes/auth.js:370-383  find the unverified user of the phone number (404 without one)
FindUser(p, dbOk) ==
  LET f == auth[p]
      user == UnverifiedUserByPhone(f.phoneNumber)
  IN
  /\ f.pc = "findUser"
  /\ Query(dbOk)
  /\ IF dbOk /\ user # NoId
       THEN auth' = [auth EXCEPT ![p] = [f EXCEPT !.pc = "verifyUser", !.userId = user]]
       ELSE Answer(p)
  /\ UNCHANGED <<users, otps, tokens, wrongTries, verified, used>>
  /\ DispatchIdle

\* routes/auth.js:385-413  UPDATE users SET is_verified = true, jwt.sign, 201
VerifyUser(p, dbOk) ==
  LET f == auth[p] IN
  /\ f.pc = "verifyUser"
  /\ Query(dbOk)
  /\ users' = IF dbOk /\ users[f.userId].present
                THEN [users EXCEPT ![f.userId].is_verified = TRUE]
                ELSE users
  /\ tokens' = IF dbOk THEN tokens \cup {f.userId}
               ELSE tokens
  /\ Answer(p)
  /\ UNCHANGED <<otps, wrongTries, verified, used>>
  /\ DispatchIdle

\* ------------------------------------------------------------------- login
\* a login that signs a token for any user whose password matches
LoginRoute_Unverified(p, email, password, dbOk) ==
  LET user == UserByEmail(email)
      granted == /\ dbOk
                 /\ user # NoId
                 /\ Compare(password, users[user].password_hash)
  IN
  /\ Start(p)
  /\ Query(dbOk)
  /\ tokens' = IF granted THEN tokens \cup {user} ELSE tokens
  /\ UNCHANGED <<users, otps, auth, wrongTries, verified, used>>
  /\ DispatchIdle

\* routes/auth.js:424-493  POST /login: 401 without the user or with a wrong
\* password, 403 when is_verified is false, otherwise jwt.sign and 200
LoginRoute(p, email, password, dbOk) ==
  LET user == UserByEmail(email)
      granted == /\ dbOk
                 /\ user # NoId
                 /\ Compare(password, users[user].password_hash)
                 /\ users[user].is_verified
  IN
  /\ Start(p)
  /\ Query(dbOk)
  /\ tokens' = IF granted THEN tokens \cup {user} ELSE tokens
  /\ UNCHANGED <<users, otps, auth, wrongTries, verified, used>>
  /\ DispatchIdle

\* ---------------------------------------------------------- password reset
\* routes/auth.js:516-557  POST /request-password-reset: 404 without a user of
\* the phone number, otherwise sendOTP(phoneNumber, 'password_reset', userId)
RequestPasswordResetRoute(p, phoneNumber, dbOk) ==
  LET user == UserByPhone(phoneNumber) IN
  /\ StartAlone(p)
  /\ OtpRoom
  /\ Query(dbOk)
  /\ auth' = [auth EXCEPT ![p] =
       IF dbOk /\ user # NoId
         THEN [AuthIdle EXCEPT !.pc = "insertOtp", !.kind = "request-password-reset",
                               !.phoneNumber = phoneNumber, !.purpose = "password_reset",
                               !.userId = user]
         ELSE AuthIdle]
  /\ UNCHANGED <<users, otps, tokens, wrongTries, verified, used>>
  /\ DispatchIdle

\* routes/otp.js (src/routes/templates.js:319-350)  POST /send: for a
\* password_reset the user of the phone number is looked up (404 without
\* one); for a registration no user is needed and userId stays null
OtpSendRoute(p, phoneNumber, purpose, dbOk) ==
  LET user == UserByPhone(phoneNumber)
      lookedUp == purpose = "password_reset"
  IN
  /\ StartAlone(p)
  /\ OtpRoom
  /\ IF lookedUp THEN Query(dbOk) ELSE dbOk /\ dbFaults' = dbFaults
  /\ auth' = [auth EXCEPT ![p] =
       IF lookedUp /\ (~dbOk \/ user = NoId)
         THEN AuthIdle
         ELSE [AuthIdle EXCEPT !.pc = "insertOtp", !.kind = "otp-send",
                               !.phoneNumber = phoneNumber, !.purpose = purpose,
                               !.userId = IF lookedUp THEN user ELSE NoId]]
  /\ UNCHANGED <<users, otps, tokens, wrongTries, verified, used>>
  /\ DispatchIdle

\* routes/auth.js:562-583  POST /reset-password: verifyOTP(phoneNumber, otp, 'password_reset')
ResetPasswordRoute(p, phoneNumber, otp, newPassword, dbOk) ==
  VerifyOTPSelect(p, "reset-password", phoneNumber, otp, "password_reset", newPassword, dbOk)

\* routes/auth.js:588-602  UPDATE users SET password_hash = $1 WHERE phone_number = $2
UpdatePassword(p, dbOk) ==
  LET f == auth[p] IN
  /\ f.pc = "updatePassword"
  /\ Query(dbOk)
  /\ users' = IF dbOk
                THEN [u \in DOMAIN users |->
                        IF users[u].present /\ users[u].phone_number = f.phoneNumber
                          THEN [users[u] EXCEPT !.password_hash = Hash(f.password)]
                          ELSE users[u]]
                ELSE users
  /\ Answer(p)
  /\ UNCHANGED <<otps, tokens, wrongTries, verified, used>>
  /\ DispatchIdle

\* -------------------------------------------------------------------- time
\* services/otpService.js:14  expiresAt = now + 10 minutes: rows pass their
\* expires_at in the order they were created
Expire ==
  LET live == {i \in DOMAIN otps : ~otps[i].expired} IN
  /\ live # {}
  /\ Cardinality(DOMAIN otps \ live) < MaxExpired
  /\ LET oldest == CHOOSE i \in live : \A j \in live : i <= j
     IN otps' = [otps EXCEPT ![oldest].expired = TRUE]
  /\ UNCHANGED <<users, auth, tokens, wrongTries, verified, used, dbFaults>>
  /\ DispatchIdle

\* the account service: no dispatch is started by a user, SMS_PROVIDER unset
AuthInit == InitWith({c \in Configs : c.provider = "mock"})

NextAuth ==
  \/ \E p \in AuthProcs, who \in People, dbOk \in BOOLEAN :
       RegisterRoute(p, who.email, who.phoneNumber, FirstPassword, dbOk)
  \/ \E p \in AuthProcs, dbOk \in BOOLEAN : InsertUser(p, dbOk)
  \/ \E p \in AuthProcs, dbOk \in BOOLEAN : InsertOtp(p, generateOTP(Len(otps) + 1), dbOk)
  \/ \E p \in AuthProcs, isSuccess \in BOOLEAN : OtpSms(p, isSuccess)
  \/ \E p \in AuthProcs, dbOk \in BOOLEAN : DeleteUser(p, dbOk)
  \/ \E p \in AuthProcs : Respond(p)
  \/ \E p \in AuthProcs, ph \in Phones, otp \in Guesses, dbOk \in BOOLEAN :
       VerifyRegistrationRoute(p, ph, otp, dbOk)
  \/ \E p \in AuthProcs, dbOk \in BOOLEAN : ExpiredCheck(p, dbOk)
  \/ \E p \in AuthProcs, dbOk \in BOOLEAN : IncAttempts(p, dbOk)
  \/ \E p \in AuthProcs, dbOk \in BOOLEAN : MarkVerified(p, dbOk)
  \/ \E p \in AuthProcs, dbOk \in BOOLEAN : MarkPhone(p, dbOk)
  \/ \E p \in AuthProcs, dbOk \in BOOLEAN : FindUser(p, dbOk)
  \/ \E p \in AuthProcs, dbOk \in BOOLEAN : VerifyUser(p, dbOk)
  \/ \E p \in AuthProcs, e \in Emails, pw \in Passwords, dbOk \in BOOLEAN :
       LoginRoute(p, e, pw, dbOk)
  \/ \E p \in AuthProcs, ph \in Phones, dbOk \in BOOLEAN :
       RequestPasswordResetRoute(p, ph, dbOk)
  \/ \E p \in AuthProcs, ph \in Phones, purpose \in Purposes, dbOk \in BOOLEAN :
       OtpSendRoute(p, ph, purpose, dbOk)
  \/ \E p \in AuthProcs, ph \in Phones, otp \in Guesses, dbOk \in BOOLEAN :
       ResetPasswordRoute(p, ph, otp, NewPassword, dbOk)
  \/ \E p \in AuthProcs, dbOk \in BOOLEAN : UpdatePassword(p, dbOk)
  \/ Expire

SpecAuth == AuthInit /\ [][NextAuth]_vars

\* ================================================================== claims
ReturnedCalls == {r \in Requests : call[r].pc = "returned"}

\* C1 (P1, conservation): every dispatch that has returned has
\* summary.sent + summary.failed = summary.total = number of destinations.
C1_Conservation ==
  \A r \in ReturnedCalls :
    /\ call[r].summary.sent + call[r].summary.failed = call[r].summary.total
    /\ call[r].summary.total = Len(call[r].recipients)

\* C2 (P4, aggregate consistency): once a persisted dispatch has returned, its
\* Message row has successful_sends + failed_sends = total_recipients.
C2_AggregateConsistency ==
  \A r \in ReturnedCalls :
    call[r].messageId # NoId =>
      LET m == messages[call[r].messageId]
      IN m.successful_sends + m.failed_sends = m.total_recipients

\* C3 (P2, outcome-status correspondence): in the results of a returned
\* dispatch, status = "sent" exactly when there is no error field, and
\* status = "failed" exactly when there is no provider-assigned messageId.
C3_OutcomeStatus ==
  \A r \in ReturnedCalls :
    \A k \in DOMAIN call[r].results :
      LET res == call[r].results[k]
      IN /\ (res.status = "sent") <=> (res.error = "none")
         /\ (res.status = "failed") <=> (res.messageId = "none")

\* C4 (P7, bulk failure): when the bulk carrier call raised, the dispatch is not
\* abandoned because of it; every destination has one result, with status
\* "failed" and the carrier's error text, and the returned summary has
\* failed = total and sent = 0.
C4_BulkFailureIsolation ==
  \A r \in Requests :
    call[r].bulkError = "carrier error" =>
      /\ call[r].pc \in {"update", "returned"}
      /\ Len(call[r].results) = Len(call[r].recipients)
      /\ \A k \in DOMAIN call[r].results :
           /\ call[r].results[k].status = "failed"
           /\ call[r].results[k].error = call[r].bulkError
           /\ call[r].results[k].phoneNumber = call[r].recipients[k]
      /\ call[r].pc = "returned" =>
           /\ call[r].summary.failed = call[r].summary.total
           /\ call[r].summary.sent = 0
           /\ call[r].summary.total = Len(call[r].recipients)

\* a persisted two-destination dispatch whose bulk call raised has returned
C4_Witness ==
  \E r \in ReturnedCalls :
    /\ call[r].bulkError = "carrier error"
    /\ call[r].messageId # NoId
    /\ Len(call[r].recipients) = 2

RespondedResends == {r \in Requests : call[r].kind = "resend" /\ call[r].pc = "responded"}

\* C5 (P5, Scenario B): a resend of a message the caller owns and that has
\* K >= 1 failed recipients succeeds and has created a new Message of the
\* caller with the original body and total_recipients = K.
C5_ResendRedispatches ==
  \A r \in RespondedResends :
    (call[r].seen.owned /\ call[r].seen.failed >= 1) =>
      /\ call[r].res.status = 200
      /\ \E m \in DOMAIN messages :
           /\ m # call[r].target
           /\ messages[m].user_id = call[r].userId
           /\ messages[m].message_content = messages[call[r].target].message_content
           /\ messages[m].total_recipients = call[r].seen.failed

\* C6 (P5): a resend of a message the caller owns and that has no failed
\* recipient is answered with the NothingToResend condition (400, "No failed
\* recipients to resend").
C6_NothingToResend ==
  \A r \in RespondedResends :
    (call[r].seen.owned /\ call[r].seen.failed = 0) =>
      /\ call[r].res.status = 400
      /\ call[r].res.message = "No failed recipients to resend"

\* the step in which a resend request is handled
ResendStep == \E r \in Requests : call[r].pc = "idle" /\ call'[r].kind = "resend"

\* C7: a resend changes no Message row that existed before it (counters
\* included) and no Recipient row of such a Message; whatever it writes or
\* queues belongs to a Message created by it.
C7_ResendLeavesOriginal ==
  [][ResendStep =>
        /\ \A m \in DOMAIN messages : m \in DOMAIN messages' /\ messages'[m] = messages[m]
        /\ \A row \in BagToSet(recipients) \cup BagToSet(recipients') :
             row.message_id \in DOMAIN messages =>
               CopiesIn(row, recipients') = CopiesIn(row, recipients)
        /\ \A q \in inflight' \ inflight : q.row.message_id \notin DOMAIN messages
        /\ inflight \subseteq inflight']_vars

\* a resend has been handled for a settled message of the caller that had a
\* failed recipient and a sent one
C7_Witness ==
  \E r \in RespondedResends :
    /\ call[r].seen.owned
    /\ call[r].seen.failed = 1
    /\ messages[call[r].target].failed_sends = 1
    /\ messages[call[r].target].successful_sends = 1

\* C8 (P6, simulation fallback): when the configured carrier's credentials are
\* absent or placeholders, every returned summary names the provider "mock".
C8_SimulationFallback ==
  (config.provider \in {"twilio", "africastalking"} /\ config.cred \in {"absent", "placeholder"})
    => \A r \in ReturnedCalls : call[r].summary.provider = "mock"

\* C9 (Scenario C): a dispatch without an owningUser creates no Message, no
\* Recipient row and no queued insert, and its summary's total, sent and
\* failed are the length and the status counts of its outcome list.
C9_DryMode ==
  \A r \in ReturnedCalls :
    call[r].userId = NoId =>
      /\ call[r].messageId = NoId
      /\ Len(messages) = Cardinality({q \in Requests : call[q].messageId # NoId})
      /\ \A row \in BagToSet(recipients) \cup {q.row : q \in inflight} :
           \E q \in Requests : call[q].kind = "send" /\ call[q].messageId = row.message_id
      /\ call[r].summary.total = Len(call[r].results)
      /\ call[r].summary.sent = CountStatus(call[r].results, "sent")
      /\ call[r].summary.failed = CountStatus(call[r].results, "failed")

\* C10 (P3, ordering): on the Twilio path the results echo the destinations in
\* input order, one result per destination once the dispatch has returned.
C10_TwilioOrdering ==
  provider = "twilio" =>
    \A r \in Requests :
      /\ Len(call[r].results) <= Len(call[r].recipients)
      /\ \A k \in DOMAIN call[r].results :
           call[r].results[k].phoneNumber = call[r].recipients[k]
      /\ call[r].pc = "returned" => Len(call[r].results) = Len(call[r].recipients)

\* a persisted Twilio dispatch to two destinations has returned with the first
\* destination failed and the second sent
C10_Witness ==
  \E r \in ReturnedCalls :
    /\ provider = "twilio"
    /\ call[r].messageId # NoId
    /\ Len(call[r].recipients) = 2
    /\ call[r].results[1].status = "failed"
    /\ call[r].results[2].status = "sent"

\* ---------------------------------------------------------- error handling
\* the rows of a message that are in the table, and its INSERTs still queued
WrittenRows(messageId) ==
  BagCardinality([row \in {x \in BagToSet(recipients) : x.message_id = messageId}
                    |-> recipients[row]])

QueuedRows(messageId) == Cardinality({q \in inflight : q.row.message_id = messageId})

\* what a returning dispatch hands its caller when carrier failures are data
FailuresAreOutcomes(f) ==
  /\ f.kind = "send" => f.res.status = 200
  /\ f.summary.total = Len(f.recipients)
  /\ f.summary.sent = CountStatus(f.results, "sent")
  /\ f.summary.failed = CountStatus(f.results, "failed")
  /\ \A k \in DOMAIN f.carrier : ~f.carrier[k].ok => f.results[k].status = "failed"
  /\ f.bulkError # "none" =>
       /\ Len(f.results) = Len(f.recipients)
       /\ \A k \in DOMAIN f.results : f.results[k].status = "failed"

\* C11: a carrier failure (the bulk call failing as a whole, or one destination
\* rejected) never abandons a dispatch: a dispatch is abandoned only in a step
\* in which a database query was rejected, and a dispatch that returns hands
\* back a summary (success, 200 on the route) in which every destination the
\* carrier rejected is a failed outcome.
C11_CarrierFailuresAreData ==
  [][\A r \in Requests :
       /\ (call[r].pc # "thrown" /\ call'[r].pc = "thrown") => dbFaults' = dbFaults + 1
       /\ (call[r].pc # "returned" /\ call'[r].pc = "returned") =>
            FailuresAreOutcomes(call'[r])]_vars

\* with no database query rejected, a persisted dispatch has returned although
\* the carrier rejected one of its destinations
C11_Witness ==
  \E r \in ReturnedCalls :
    /\ dbFaults = 0
    /\ call[r].messageId # NoId
    /\ call[r].res.status = 200
    /\ \E k \in DOMAIN call[r].carrier : ~call[r].carrier[k].ok

\* C12: a rejected INSERT of a recipient row is a hard failure of the dispatch
\* on every provider path: a persisted dispatch that has returned has no
\* destination the carrier accepted recorded as failed, and every one of its
\* results has its row written (or its INSERT still on the way).
C12_PersistenceFailurePropagates ==
  \A r \in ReturnedCalls :
    call[r].messageId # NoId =>
      /\ \A k \in DOMAIN call[r].results \cap DOMAIN call[r].carrier :
           ~(call[r].carrier[k].ok /\ call[r].results[k].status = "failed")
      /\ WrittenRows(call[r].messageId) + QueuedRows(call[r].messageId)
           = Len(call[r].results)

\* C13: a resend of a message that does not exist or that the caller does not
\* own is answered NotFound (404, "Message not found"), and that answer differs
\* from the one given for a message of the caller without failed recipients.
C13_ResendNotFound ==
  \A r \in RespondedResends :
    ~call[r].seen.owned =>
      /\ call[r].res.status = 404
      /\ call[r].res.message = "Message not found"
      /\ \A q \in RespondedResends :
           (call[q].seen.owned /\ call[q].seen.failed = 0) => call[q].res # call[r].res

\* C14: the provider is the one chosen at construction, every dispatch that
\* returns went through it, and every CSV-send with numbers in its file and
\* every resend with failed recipients is dispatched (through it) as well.
C14_SingleTransport ==
  /\ provider = initializeProvider(config.provider, config.cred, config.libRejectsPlaceholder)
  /\ \A r \in ReturnedCalls : call[r].summary.provider = provider
  /\ \A r \in Requests :
       (call[r].pc = "responded" /\ call[r].kind = "csv" /\ call[r].res.status # 400)
         => call[r].res.status = 200
  /\ \A r \in RespondedResends :
       (call[r].seen.owned /\ call[r].seen.failed >= 1) => call[r].res.status = 200

\* C15: in every state every Message row has
\* successful_sends + failed_sends <= total_recipients.
C15_CountersBounded ==
  \A m \in DOMAIN messages :
    messages[m].successful_sends + messages[m].failed_sends <= messages[m].total_recipients

\* one dispatch was abandoned after its Message row was created while the
\* other has written counters that add up to its two recipients
C15_Witness ==
  \E r, q \in Requests :
    /\ call[r].pc = "thrown" /\ call[r].messageId # NoId
    /\ call[q].pc = "returned" /\ call[q].messageId # NoId
    /\ messages[call[q].messageId].total_recipients = 2
    /\ messages[call[q].messageId].successful_sends = 1
    /\ messages[call[q].messageId].failed_sends = 1

\* C18: when the counters of a Message are updated, every Recipient row of
\* that dispatch is in the table: none of its INSERTs is still on the way and
\* the table holds one row per result.
C18_UpdateAfterRows ==
  [][\A r \in Requests :
       (call[r].pc = "update" /\ call'[r].pc = "returned") =>
         /\ QueuedRows(call[r].messageId) = 0
         /\ WrittenRows(call[r].messageId) = Len(call[r].results)]_vars

\* C19: on the bulk path each result carries what the carrier reported for
\* the result's own phoneNumber: the response has an entry naming that number
\* and the result's status is the status of that entry.
C19_BulkPairing ==
  \A r \in ReturnedCalls :
    (provider = "africastalking" /\ call[r].bulkError = "none") =>
      \A k \in DOMAIN call[r].results :
        \E j \in DOMAIN call[r].carrier :
          /\ call[r].carrier[j].number = call[r].results[k].phoneNumber
          /\ call[r].carrier[j].ok <=> call[r].results[k].status = "sent"

\* C20: on the Twilio path results[i].status = "sent" exactly when the carrier
\* call for destinations[i] succeeded.
C20_TwilioIsolation ==
  provider = "twilio" =>
    \A r \in Requests :
      \A k \in DOMAIN call[r].results :
        /\ call[r].carrier[k].number = call[r].recipients[k]
        /\ call[r].results[k].status = "sent" <=> call[r].carrier[k].ok

\* ----------------------------------------------------------------- accounts
\* the step in which verifyOTP returns success to the route that called it
VerifyOTPSucceeds(p) ==
  /\ auth[p].pc \in {"markVerified", "markPhone"}
  /\ auth'[p].pc \in {"findUser", "updatePassword"}

\* C16: once three verifyOTP calls with a wrong code have been answered for a
\* phone number and purpose since the last OTP was issued for them, no
\* verifyOTP call for that phone number and purpose returns success.
C16_AttemptLimit ==
  [][\A p \in AuthProcs :
       VerifyOTPSucceeds(p) =>
         wrongTries[<<auth[p].phoneNumber, auth[p].purpose>>] < AttemptLimit]_vars

\* C17: a JWT has been signed for a user only if verifyOTP has returned
\* success for that user's phone number with purpose 'registration'.
C17_TokenNeedsVerifiedPhone ==
  \A u \in tokens : <<users[u].phone_number, "registration">> \in verified

\* the second user to sign up holds a JWT, the first one does not, and a
\* password reset OTP has been verified for the second user's phone as well
C17_Witness ==
  /\ tokens = {2}
  /\ users[2].is_verified /\ ~users[1].is_verified
  /\ <<users[2].phone_number, "password_reset">> \in verified

\* ------------------------------------------------------------ message history
\* the rows in the table for one message and one phone number
RowsFor(messageId, phoneNumber) ==
  BagCardinality([row \in {x \in BagToSet(recipients) :
                             x.message_id = messageId /\ x.phone_number = phoneNumber}
                    |-> recipients[row]])

\* C21: once a persisted dispatch over deduplicated destinations has
\* returned, its Message has exactly one Recipient row for each destination
\* and no other Recipient row.
C21_OneRowPerDestination ==
  \A r \in ReturnedCalls :
    (call[r].kind = "send" /\ call[r].messageId # NoId) =>
      /\ \A k \in DOMAIN call[r].recipients :
           RowsFor(call[r].messageId, call[r].recipients[k]) = 1
      /\ WrittenRows(call[r].messageId) = Len(call[r].recipients)

\* C22: a Recipient row is never updated once written: in every step of the
\* dispatch or resend code every row of the table stays as it is (the table
\* only gains rows).
C22_RecipientRowsImmutable ==
  [][\A row \in BagToSet(recipients) :
       CopiesIn(row, recipients') >= CopiesIn(row, recipients)]_vars

\* the step in which the dispatch that created Message m writes its counters
SettlesMessage(r, m) ==
  /\ call[r].messageId = m
  /\ call[r].pc \in {"update", "legacyUpdate"}
  /\ call'[r].pc = "returned"

Counters(row) == <<row.successful_sends, row.failed_sends>>

\* C23: the counters of a Message are written at most once: a Message is
\* created with both counters 0 by one dispatch, its counters change only in
\* the one aggregate update of that dispatch, and once that dispatch has
\* returned (the Message is settled) no step changes the row again.
C23_CountersWrittenOnce ==
  [][/\ \A r, q \in Requests :
          (r # q /\ call[r].messageId # NoId) => call[r].messageId # call[q].messageId
     /\ \A m \in DOMAIN messages' \ DOMAIN messages : Counters(messages'[m]) = <<0, 0>>
     /\ \A m \in DOMAIN messages :
          /\ m \in DOMAIN messages'
          /\ Counters(messages'[m]) # Counters(messages[m]) =>
               \E r \in Requests : SettlesMessage(r, m)
          /\ (\E r \in Requests : call[r].messageId = m /\ call[r].pc = "returned") =>
               messages'[m] = messages[m]]_vars

\* two dispatches have settled their Messages: the first one's counters are
\* still the ones it wrote (one sent, one failed), the second one's as well
C23_Witness ==
  /\ Len(messages) = 2
  /\ \A r \in Requests : call[r].pc = "returned" /\ call[r].messageId # NoId
  /\ Counters(messages[1]) = <<1, 1>>
  /\ Counters(messages[2]) = <<0, 1>>

\* ------------------------------------------------------------- concurrency
\* a row belongs to the dispatch r: it carries r's message id and, as long as
\* r's outcome list is there to compare, it is the row of one of r's outcomes
RowOfDispatch(row, r) ==
  /\ call[r].messageId = row.message_id
  /\ call[r].pc # "thrown" =>
       \E k \in DOMAIN call[r].results :
         /\ call[r].results[k].phoneNumber = row.phone_number
         /\ call[r].results[k].status = row.delivery_status

\* C24: dispatches interleaved at their suspension points are independent:
\* every Recipient row written or queued references the Message of the
\* dispatch whose outcome it records, a Message has no more rows than its own
\* dispatch has outcomes, and the counters of a Message are 0 until its own
\* dispatch has returned and then the sent / failed counts of that dispatch's
\* outcome list.
C24_DispatchesIndependent ==
  /\ \A row \in BagToSet(recipients) \cup {q.row : q \in inflight} :
       \E r \in Requests : RowOfDispatch(row, r)
  /\ \A r \in Requests :
       call[r].messageId # NoId =>
         /\ \A q \in Requests : q # r => call[q].messageId # call[r].messageId
         /\ call[r].pc # "thrown" =>
              WrittenRows(call[r].messageId) + QueuedRows(call[r].messageId)
                <= Len(call[r].results)
         /\ Counters(messages[call[r].messageId]) =
              IF call[r].pc = "returned"
                THEN <<CountStatus(call[r].results, "sent"),
                       CountStatus(call[r].results, "failed")>>
                ELSE <<0, 0>>

\* the dispatch that started second has settled its Message while the one
\* that started first is between its two destinations
C24_Witness ==
  /\ call[1].messageId # NoId /\ call[2].messageId # NoId
  /\ call[1].pc \notin {"returned", "thrown", "update"}
  /\ Len(call[1].recipients) = 2 /\ Len(call[1].results) = 1
  /\ call[2].pc = "returned"
  /\ call[2].recipients = call[1].recipients
  /\ WrittenRows(call[2].messageId) = 2

\* the step in which the INSERT of a Recipient row of dispatch r is rejected
RecipientInsertRejected(r) ==
  /\ call[r].messageId # NoId
  /\ dbFaults' = dbFaults + 1
  /\ recipients' = recipients
  /\ \/ /\ call[r].pc \in {"twilioInsertSent", "twilioInsertFailed", "mock"}
        /\ call'[r] # call[r]
     \/ \E q \in inflight \ inflight' : q.row.message_id = call[r].messageId

\* C25: when the INSERT of a Recipient row is rejected in the middle of a
\* persisted dispatch, the Message row and the rows already written stay as
\* they are, the dispatch raises to its caller, and the counters of the
\* Message of a dispatch that raised are 0.
C25_NoRollback ==
  [][\A r \in Requests :
       /\ RecipientInsertRejected(r) =>
            /\ messages' = messages
            /\ call'[r].pc = "thrown"
       /\ (call[r].pc = "thrown" /\ call[r].messageId # NoId) =>
            Counters(messages'[call[r].messageId]) = <<0, 0>>]_vars

\* ------------------------------------------------------------- termination
\* the dispatch r has run to completion: it has returned a summary, its
\* per-destination loop has produced one outcome per destination, in order,
\* and its Message, when it has one, is settled
Completed(r) ==
  /\ call[r].pc = "returned"
  /\ call[r].summary.total = Len(call[r].recipients)
  /\ Len(call[r].results) = Len(call[r].recipients)
  /\ \A k \in DOMAIN call[r].results :
       call[r].results[k].phoneNumber = call[r].recipients[k]
  /\ call[r].userId # NoId =>
       /\ call[r].messageId # NoId
       /\ WrittenRows(call[r].messageId) = Len(call[r].recipients)
       /\ Counters(messages[call[r].messageId]) =
            <<CountStatus(call[r].results, "sent"), CountStatus(call[r].results, "failed")>>
       /\ messages[call[r].messageId].successful_sends
            + messages[call[r].messageId].failed_sends = Len(call[r].recipients)

ResendsOf(t, u) ==
  {r \in RespondedResends :
     /\ call[r].target = t /\ call[r].userId = u
     /\ call[r].seen.owned /\ call[r].seen.failed >= 1}

\* C27: every resend of a message with K failed recipients is answered with
\* success and has created one more Message of the caller with
\* total_recipients = K: after n such resends there are n such Messages
\* besides the original.
C27_ResendRepeatable ==
  \A t \in MessageIds, u \in Users :
    \A r \in ResendsOf(t, u) :
      /\ call[r].res.status = 200
      /\ Cardinality({m \in DOMAIN messages :
                        /\ m # t
                        /\ messages[m].user_id = u
                        /\ messages[m].total_recipients = call[r].seen.failed})
           >= Cardinality(ResendsOf(t, u))

\* ---------------------------------------------------------------- OTP use
\* C28: an OTP record is single-use: verifyOTP returns success for a record
\* only if it has not returned success for that record before, whatever the
\* interleaving of the calls.
C28_OtpSingleUse ==
  [][\A p \in AuthProcs : VerifyOTPSucceeds(p) => auth[p].otpId \notin used]_vars

\* C29: when /register is about to answer and the OTP SMS was not sent
\* (sendOTP raised, or the carrier's outcome for the phone number was failed),
\* the user row the request created is gone and no user row stands in the way
\* of registering the same email and phone number again.
C29_TempUserRemoved ==
  \A p \in AuthProcs :
    (auth[p].kind = "register" /\ auth[p].pc = "answered" /\ ~auth[p].sent) =>
      /\ ~users[auth[p].userId].present
      /\ ExistingUsers(auth[p].email, auth[p].phoneNumber) = {}

\* the row verifyOTP is working on is a row of the phone number, code and
\* purpose it was called with
BoundTo(f) ==
  /\ otps[f.otpId].phone_number = f.phoneNumber
  /\ otps[f.otpId].otp_code = f.otp
  /\ otps[f.otpId].purpose = f.purpose

\* C30: verifyOTP(phone, code, purpose) goes on to succeed only from a row
\* that, when it was selected, was present, unverified, unexpired and had
\* exactly that phone number, code and purpose; /reset-password goes on only
\* on a 'password_reset' row and /verify-registration only on a
\* 'registration' row of the phone number in the request.
C30_OtpBoundToPurposeAndPhone ==
  [][\A p \in AuthProcs :
       /\ (auth[p].pc = "idle" /\ auth'[p].pc = "markVerified") =>
            /\ BoundTo(auth'[p])
            /\ otps[auth'[p].otpId].present
            /\ ~otps[auth'[p].otpId].is_verified
            /\ ~otps[auth'[p].otpId].expired
       /\ VerifyOTPSucceeds(p) =>
            /\ BoundTo(auth[p])
            /\ auth'[p].pc = "updatePassword" =>
                 otps[auth[p].otpId].purpose = "password_reset"
            /\ auth'[p].pc = "findUser" =>
                 otps[auth[p].otpId].purpose = "registration"]_vars

\* a password reset has been verified for a phone number that also has an
\* unused, unexpired registration OTP
C30_Witness ==
  \E p \in AuthProcs :
    /\ auth[p].pc = "updatePassword"
    /\ auth[p].otpId \in used
    /\ \E i \in DOMAIN otps :
         /\ otps[i].present /\ ~otps[i].is_verified /\ ~otps[i].expired
         /\ otps[i].phone_number = auth[p].phoneNumber
         /\ otps[i].purpose = "registration"

====
